---- MODULE Spec2Model ----
(***************************************************************************)
(* A model of elastalert/ruletypes.py: the EventWindow container and the   *)
(* rule types built on it.  Timestamps are integers (datetime), durations  *)
(* are their differences (timedelta).  An event is a record carrying its   *)
(* timestamp field, its query_key value and an id that stands for the      *)
(* identity of the dict object; a window entry is the tuple (event, count).*)
(***************************************************************************)
EXTENDS Integers, Sequences, FiniteSets, TLC

\* ---- bounds of the model ----
MaxTs == 4
MaxTimeframe == 3
MaxAppends == 5
MaxOps == 3          \* entries (events, counts, buckets, ticks) ingested by a rule
MaxRawEvents == 4    \* raw events fed to a rule that only receives add_data
MaxSpikeOps == 3     \* observations handled by a spike rule
MaxChangeOps == 3    \* events handled by the ChangeRule instances together
MaxAnyOps == 2       \* entries handled by a rule of any type

Timestamps == 0..MaxTs
Timeframes == 1..MaxTimeframe

VARIABLES
    ew,         \* the EventWindow under test: [timeframe, onRemoved, data]
    cbCalls,    \* the entries passed to the window's onRemoved callback, in call order
    appended,   \* history: every entry handed to EventWindow.append so far
    nextId,     \* identity of the next event object
    rule,       \* the rule instance under test: its configuration (rules) and fields
    result,     \* how the last call ended: "ok", the exception raised, or "dropped"
                \* when append_middle gave up
    cls,        \* the class attributes of ChangeRule: change_map, occurrence_time
    other,      \* a second ChangeRule instance of the same process
    alone       \* history: the ChangeRule under test and the class attributes as
                \* they would be, had its calls been the only ones of the process

vars == <<ew, cbCalls, appended, nextId, rule, result, cls, other, alone>>
ewVars == <<ew, cbCalls, appended, nextId>>
ruleVars == <<rule, result, cls, other, alone>>

\* Python's None where a timestamp or an entry is expected (timestamps are
\* never negative), and where the value of an event's field is expected
None == -1
Null == "None"

\* no rule was constructed
NoRule == [rules |-> [type |-> "none"]]

\* ---------------------------------------------------------------------
\* EventWindow
\* ---------------------------------------------------------------------

\* getTimestamp=lambda e: e[0]['@timestamp']
get_ts(entry) == entry.event.ts

Entry(ts, id, qk, count) == [event |-> [ts |-> ts, id |-> id, qk |-> qk], count |-> count]

\* EventWindow.__init__
EventWindow(timeframe, onRemoved) ==
    [timeframe |-> timeframe, onRemoved |-> onRemoved, data |-> <<>>]

\* EventWindow.duration
duration(data) ==
    IF data = <<>> THEN 0 ELSE get_ts(data[Len(data)]) - get_ts(data[1])

\* EventWindow.count
RECURSIVE count(_)
count(data) ==
    IF data = <<>> THEN 0 ELSE Head(data).count + count(Tail(data))

\* deque.rotate(1): the last element moves to the front
rotate1(data) ==
    IF data = <<>> THEN data
    ELSE <<data[Len(data)]>> \o SubSeq(data, 1, Len(data) - 1)

\* deque.rotate(-n): the first n elements move to the back
rotateBack(data, n) ==
    IF data = <<>> THEN data
    ELSE LET k == n % Len(data)
         IN  SubSeq(data, k + 1, Len(data)) \o SubSeq(data, 1, k)

RECURSIVE rotateLoopEarlyCap(_, _, _)
rotateLoopEarlyCap(data, event, rotation) ==
    IF get_ts(data[Len(data)]) > get_ts(event)
    THEN LET d1 == rotate1(data)
             r1 == rotation + 1
         IN  IF r1 = Len(d1) - 1
             THEN [data |-> d1, capped |-> TRUE]
             ELSE rotateLoopEarlyCap(d1, event, r1)
    ELSE [data |-> rotateBack(Append(data, event), rotation), capped |-> FALSE]

\* the "while self.get_ts(self.data[-1]) > ts" loop of append_middle
RECURSIVE rotateLoop(_, _, _)
rotateLoop(data, event, rotation) ==
    IF get_ts(data[Len(data)]) > get_ts(event)
    THEN LET d1 == rotate1(data)
             r1 == rotation + 1
         IN  IF r1 = Len(d1)
             THEN [data |-> d1, capped |-> TRUE]       \* "This should never happen"
             ELSE rotateLoop(d1, event, r1)
    ELSE [data |-> rotateBack(Append(data, event), rotation), capped |-> FALSE]

\* EventWindow.append_middle
append_middle(data, event) ==
    IF get_ts(data[1]) > get_ts(event)
    THEN [data |-> <<event>> \o data, capped |-> FALSE]
    ELSE rotateLoop(data, event, 0)

\* the "while self.duration() >= self.timeframe" loop of append;
\* out collects the entries popped from the left, oldest call first
RECURSIVE evictLoopGt(_, _, _)
evictLoopGt(data, timeframe, out) ==
    IF duration(data) > timeframe
    THEN evictLoopGt(Tail(data), timeframe, Append(out, Head(data)))
    ELSE [data |-> data, removed |-> out]

RECURSIVE evictLoopPop(_, _, _)
evictLoopPop(data, timeframe, out) ==
    IF duration(data) >= timeframe
    THEN evictLoopPop(SubSeq(data, 1, Len(data) - 1), timeframe, Append(out, data[Len(data)]))
    ELSE [data |-> data, removed |-> out]

RECURSIVE evictLoop(_, _, _)
evictLoop(data, timeframe, out) ==
    IF duration(data) >= timeframe
    THEN evictLoop(Tail(data), timeframe, Append(out, Head(data)))
    ELSE [data |-> data, removed |-> out]

insertTail(data, event) == Append(data, event)

\* the insertion half of EventWindow.append
insert(data, event) ==
    IF Len(data) > 0 /\ get_ts(data[Len(data)]) > get_ts(event)
    THEN append_middle(data, event).data
    ELSE Append(data, event)

\* append_middle returned at its cap ("This should never happen"), without
\* inserting the event
dropped(data, event) ==
    /\ Len(data) > 0
    /\ get_ts(data[Len(data)]) > get_ts(event)
    /\ append_middle(data, event).capped

\* EventWindow.append: the new deque and the entries popped (each is handed
\* to onRemoved, when set, at the moment it is popped)
append(data, timeframe, event) ==
    evictLoop(insert(data, event), timeframe, <<>>)

\* ---------------------------------------------------------------------
\* Specification of a single EventWindow
\* ---------------------------------------------------------------------

InitEW ==
    /\ \E tf \in Timeframes, cb \in BOOLEAN : ew = EventWindow(tf, cb)
    /\ cbCalls = <<>>
    /\ appended = {}
    /\ nextId = 1
    /\ rule = NoRule /\ result = "ok" /\ cls = NoRule /\ other = NoRule /\ alone = NoRule

\* window.append((event, count)) with the callback recording its argument
EW_append(ts, c) ==
    /\ nextId <= MaxAppends
    /\ LET e == Entry(ts, nextId, "all", c)
           r == append(ew.data, ew.timeframe, e)
       IN  /\ ew' = [ew EXCEPT !.data = r.data]
           /\ cbCalls' = IF ew.onRemoved THEN cbCalls \o r.removed ELSE cbCalls
           /\ appended' = appended \cup {e}
    /\ nextId' = nextId + 1
    /\ result' = IF dropped(ew.data, Entry(ts, nextId, "all", c)) THEN "dropped" ELSE "ok"
    /\ UNCHANGED <<rule, cls, other, alone>>

NextEW == \E ts \in Timestamps : EW_append(ts, 1)

SpecEW == InitEW /\ [][NextEW]_vars

\* ---------------------------------------------------------------------
\* RuleType and its dictionaries
\* ---------------------------------------------------------------------

EmptyDict == [k \in {} |-> <<>>]

\* d[key] = value
Put(d, key, value) == [k \in DOMAIN d \cup {key} |-> IF k = key THEN value ELSE d[k]]

\* d.pop(key)
Pop(d, key) == [k \in DOMAIN d \ {key} |-> d[k]]

\* d.setdefault(key, EventWindow(...)).data
WindowOf(d, key) == IF key \in DOMAIN d THEN d[key] ELSE <<>>

\* dict.keys(): the keys of d as a list.  The order of the list is the
\* dictionary's; a rule's checks give the same result in every order as long
\* as at most one key matches in a check (AtMostOneMatchPerCheck below).
KeysOf(d) == SelectSeq(<<"all", "k1", "k2", "other">>, LAMBDA k : k \in DOMAIN d)

\* util.dt_to_ts: the timestamp rendered as a string
dt_to_ts(ts) == <<"iso8601", ts>>

\* RuleType.add_match
add_matchReset(matches, event) == <<[event EXCEPT !.ts = dt_to_ts(@)]>>

add_match(matches, event) == Append(matches, [event EXCEPT !.ts = dt_to_ts(@)])

QueryKeys == {"k1", "k2"}
AllKeys == {"all"} \cup QueryKeys
\* the values fed to the rules: timestamps, timeframes, hit counts of a count
\* query, doc_counts of a bucket, sizes of a batch of events or buckets
RuleTs == 0..2
RuleTimeframes == 1..2
Counts == 0..2
DocCounts == 1..2
BatchSizes == 1..2

\* ---------------------------------------------------------------------
\* FrequencyRule and FlatlineRule
\* ---------------------------------------------------------------------

\* FrequencyRule.check_for_match; keys is self.occurrences.keys()
RECURSIVE FrequencyCheckKeysOldest(_, _)
FrequencyCheckKeysOldest(st, keys) ==
    IF keys = <<>> THEN st
    ELSE LET key == Head(keys)
             window == st.occurrences[key]
         IN  IF count(window) >= st.rules.num_events
             THEN LET event == window[1].event
                      popped == Pop(st.occurrences, key)
                  IN  FrequencyCheckKeysOldest(
                          [st EXCEPT !.matches = add_match(@, event),
                                     !.occurrences = popped,
                                     !.log = Append(@, [key |-> key, window |-> window,
                                                        since |-> st.since[key],
                                                        trigger |-> st.ingested,
                                                        at |-> st.n,
                                                        keysAfter |-> DOMAIN popped]),
                                     !.since = [@ EXCEPT ![key] = 0]],
                          Tail(keys))
             ELSE FrequencyCheckKeysOldest(st, Tail(keys))

RECURSIVE FrequencyCheckKeysKeep(_, _)
FrequencyCheckKeysKeep(st, keys) ==
    IF keys = <<>> THEN st
    ELSE LET key == Head(keys)
             window == st.occurrences[key]
         IN  IF count(window) >= st.rules.num_events
             THEN LET event == window[Len(window)].event
                      popped == st.occurrences
                  IN  FrequencyCheckKeysKeep(
                          [st EXCEPT !.matches = add_match(@, event),
                                     !.occurrences = popped,
                                     !.log = Append(@, [key |-> key, window |-> window,
                                                        since |-> st.since[key],
                                                        trigger |-> st.ingested,
                                                        at |-> st.n,
                                                        keysAfter |-> DOMAIN popped]),
                                     !.since = [@ EXCEPT ![key] = 0]],
                          Tail(keys))
             ELSE FrequencyCheckKeysKeep(st, Tail(keys))

RECURSIVE FrequencyCheckKeys(_, _)
FrequencyCheckKeys(st, keys) ==
    IF keys = <<>> THEN st
    ELSE LET key == Head(keys)
             window == st.occurrences[key]
         IN  IF count(window) >= st.rules.num_events
             THEN LET event == window[Len(window)].event
                      popped == Pop(st.occurrences, key)
                  IN  FrequencyCheckKeys(
                          [st EXCEPT !.matches = add_match(@, event),
                                     !.occurrences = popped,
                                     !.log = Append(@, [key |-> key, window |-> window,
                                                        since |-> st.since[key],
                                                        trigger |-> st.ingested,
                                                        at |-> st.n,
                                                        keysAfter |-> DOMAIN popped]),
                                     !.since = [@ EXCEPT ![key] = 0]],
                          Tail(keys))
             ELSE FrequencyCheckKeys(st, Tail(keys))

\* FlatlineRule.check_for_match ("not self.first_event" is "is None": a
\* datetime is never false)
FlatlineCheckLate(st) ==
    LET all == st.occurrences["all"]
        most_recent_ts == get_ts(all[Len(all)])
        first == IF st.first_event = None THEN most_recent_ts ELSE st.first_event
        st1 == [st EXCEPT !.first_event = first,
                          !.quiet = IF st.first_event = None THEN TRUE ELSE @]
        quiet == st1.quiet
        st2 == IF most_recent_ts - first <= st.rules.timeframe
               THEN st1
               ELSE IF count(all) < st.rules.threshold
                    THEN [st1 EXCEPT !.matches = add_match(@, all[Len(all)].event),
                                     !.occurrences = Pop(@, "all"),
                                     !.first_event = None,
                                     !.log = Append(@, [key |-> "all", window |-> all,
                                                        trigger |-> st.ingested,
                                                        first |-> first, quiet |-> quiet])]
                    ELSE st1
    IN  [st2 EXCEPT !.checks = Append(@, [window |-> all,
                                          first |-> st.first_event,
                                          matched |-> Len(st2.matches) > Len(st.matches),
                                          after |-> st2.occurrences,
                                          firstAfter |-> st2.first_event])]

FlatlineCheckAtThreshold(st) ==
    LET all == st.occurrences["all"]
        most_recent_ts == get_ts(all[Len(all)])
        first == IF st.first_event = None THEN most_recent_ts ELSE st.first_event
        st1 == [st EXCEPT !.first_event = first,
                          !.quiet = IF st.first_event = None THEN TRUE ELSE @]
        quiet == st1.quiet
        st2 == IF most_recent_ts - first < st.rules.timeframe
               THEN st1
               ELSE IF count(all) <= st.rules.threshold
                    THEN [st1 EXCEPT !.matches = add_match(@, all[Len(all)].event),
                                     !.occurrences = Pop(@, "all"),
                                     !.first_event = None,
                                     !.log = Append(@, [key |-> "all", window |-> all,
                                                        trigger |-> st.ingested,
                                                        first |-> first, quiet |-> quiet])]
                    ELSE st1
    IN  [st2 EXCEPT !.checks = Append(@, [window |-> all,
                                          first |-> st.first_event,
                                          matched |-> Len(st2.matches) > Len(st.matches),
                                          after |-> st2.occurrences,
                                          firstAfter |-> st2.first_event])]

FlatlineCheck(st) ==
    LET all == st.occurrences["all"]
        most_recent_ts == get_ts(all[Len(all)])
        first == IF st.first_event = None THEN most_recent_ts ELSE st.first_event
        st1 == [st EXCEPT !.first_event = first,
                          !.quiet = IF st.first_event = None THEN TRUE ELSE @]
        quiet == st1.quiet
        st2 == IF most_recent_ts - first < st.rules.timeframe
               THEN st1
               ELSE IF count(all) < st.rules.threshold
                    THEN [st1 EXCEPT !.matches = add_match(@, all[Len(all)].event),
                                     !.occurrences = Pop(@, "all"),
                                     !.first_event = None,
                                     !.log = Append(@, [key |-> "all", window |-> all,
                                                        trigger |-> st.ingested,
                                                        first |-> first, quiet |-> quiet])]
                    ELSE st1
    IN  [st2 EXCEPT !.checks = Append(@, [window |-> all,
                                          first |-> st.first_event,
                                          matched |-> Len(st2.matches) > Len(st.matches),
                                          after |-> st2.occurrences,
                                          firstAfter |-> st2.first_event])]

\* self.check_for_match()
check_for_match(st) ==
    IF st.rules.type = "flatline"
    THEN FlatlineCheck(st)
    ELSE FrequencyCheckKeys(st, KeysOf(st.occurrences))

FrequencyIngestNoCheck(st, key, entry, raw) ==
    LET window == append(WindowOf(st.occurrences, key), st.rules.timeframe, entry).data
        st1 == [st EXCEPT !.occurrences = Put(@, key, window), !.n = @ + 1,
                          !.ingested = entry]
    IN  IF st.rules.type = "flatline"
        THEN [st1 EXCEPT !.quiet = IF st.first_event # None /\ raw THEN FALSE ELSE @]
        ELSE [st1 EXCEPT !.since = [@ EXCEPT ![key] = @ + 1]]

\* self.occurrences.setdefault(key, EventWindow(timeframe)).append(entry)
\* followed by self.check_for_match()
FrequencyIngest(st, key, entry, raw) ==
    LET window == append(WindowOf(st.occurrences, key), st.rules.timeframe, entry).data
        st1 == [st EXCEPT !.occurrences = Put(@, key, window), !.n = @ + 1,
                          !.ingested = entry]
        st2 == IF st.rules.type = "flatline"
               THEN [st1 EXCEPT !.quiet = IF st.first_event # None /\ raw THEN FALSE ELSE @]
               ELSE [st1 EXCEPT !.since = [@ EXCEPT ![key] = @ + 1]]
    IN  check_for_match(st2)

\* the loop of FrequencyRule.add_data
RECURSIVE FrequencyAddData(_, _)
FrequencyAddData(st, data) ==
    IF data = <<>> THEN st
    ELSE LET event == Head(data)
             key == IF st.rules.query_key THEN event.qk ELSE "all"
         IN  FrequencyAddData(
                 FrequencyIngest(st, key, [event |-> event, count |-> 1], TRUE),
                 Tail(data))

FrequencyAddCountDataLate(st, data) ==
    IF DOMAIN data = {} THEN st
    ELSE LET ts == CHOOSE t \in DOMAIN data : TRUE
             st1 == FrequencyIngest(st, "all", Entry(ts, 0, Null, data[ts]), TRUE)
         IN  IF Cardinality(DOMAIN data) > 1
             THEN [st1 EXCEPT !.raised = "EAException"]
             ELSE st1

\* FrequencyRule.add_count_data; data is a dictionary {ts: count}
FrequencyAddCountData(st, data) ==
    IF Cardinality(DOMAIN data) > 1
    THEN [st EXCEPT !.raised = "EAException"]
    ELSE IF DOMAIN data = {} THEN st
    ELSE LET ts == CHOOSE t \in DOMAIN data : TRUE
         IN  FrequencyIngest(st, "all", Entry(ts, 0, Null, data[ts]), TRUE)

\* the loop over the buckets of one timestamp in FrequencyRule.add_terms_data
RECURSIVE FrequencyAddBuckets(_, _, _)
FrequencyAddBuckets(st, timestamp, buckets) ==
    IF buckets = <<>> \/ st.raised # "ok" THEN st
    ELSE LET bucket == Head(buckets)
         IN  IF ~st.rules.query_key
             THEN [st EXCEPT !.raised = "KeyError"]     \* self.rules['query_key']
             ELSE FrequencyAddBuckets(
                      FrequencyIngest(st, bucket.key,
                                      Entry(timestamp, 0, bucket.key, bucket.doc_count),
                                      TRUE),
                      timestamp, Tail(buckets))

\* FrequencyRule.add_terms_data; terms is a dictionary {ts: buckets} of one timestamp
FrequencyAddTermsData(st, terms) ==
    IF DOMAIN terms = {} THEN st
    ELSE LET timestamp == CHOOSE t \in DOMAIN terms : TRUE
         IN  FrequencyAddBuckets(st, timestamp, terms[timestamp])

\* FrequencyRule.garbage_collect
FrequencyGarbageCollect(st, timestamp) ==
    LET stale_keys == {key \in DOMAIN st.occurrences :
                          timestamp - get_ts(st.occurrences[key][Len(st.occurrences[key])])
                              > st.rules.timeframe}
    IN  [st EXCEPT !.occurrences = [k \in DOMAIN @ \ stale_keys |-> @[k]]]

\* FlatlineRule.garbage_collect
FlatlineGarbageCollect(st, ts) ==
    FrequencyIngest(st, "all", Entry(ts, 0, Null, 0), FALSE)

\* RuleType.__init__ and FrequencyRule.__init__; n, ingested, log and since
\* are history: the number of entries ingested, the entry ingested last by
\* the call in progress, the add_match calls of the last call, and the
\* entries ingested per key since the key last matched
FrequencyRule(rules) ==
    [rules |-> rules, matches |-> <<>>, occurrences |-> EmptyDict,
     n |-> 0, ingested |-> None, log |-> <<>>, since |-> [k \in AllKeys |-> 0],
     raised |-> "ok"]

\* FlatlineRule.__init__; quiet and checks are history: no event was ingested
\* since first_event was set, and the check_for_match calls of the last call
FlatlineRule(rules) ==
    [rules |-> rules, matches |-> <<>>, occurrences |-> EmptyDict,
     first_event |-> None, n |-> 0, ingested |-> None, log |-> <<>>, quiet |-> TRUE,
     checks |-> <<>>, raised |-> "ok"]

FrequencyConfigs ==
    [type : {"frequency"}, timeframe : RuleTimeframes, num_events : 1..2,
     query_key : BOOLEAN]

FlatlineConfigs ==
    [type : {"flatline"}, timeframe : RuleTimeframes, threshold : 0..2,
     query_key : {FALSE}]

\* the events a driver hands to a rule: the query_key field is looked up only
\* when the rule has a query_key
EventsFor(rules, tss) ==
    {Entry(ts, 0, qk, 1).event : ts \in tss,
                                 qk \in IF rules.query_key THEN QueryKeys ELSE {Null}}

Batches(events) == UNION {[1..n -> events] : n \in BatchSizes}

CountData(tss) ==
    UNION {[S -> Counts] : S \in {T \in SUBSET tss : Cardinality(T) <= 1}}
        \cup UNION {[S -> {1}] : S \in {T \in SUBSET tss : Cardinality(T) = 2}}

Buckets == [key : QueryKeys, doc_count : DocCounts]

TermsData(tss) ==
    UNION {[{ts} -> {b \in UNION {[1..n -> Buckets] : n \in BatchSizes} :
                        \A i, j \in DOMAIN b : i # j => b[i].key # b[j].key}] : ts \in tss}

\* the state a call starts from: nothing raised, no add_match call recorded
Call(st) ==
    LET st1 == [st EXCEPT !.raised = "ok", !.log = <<>>, !.ingested = None]
    IN  IF "checks" \in DOMAIN st THEN [st1 EXCEPT !.checks = <<>>] ELSE st1

\* the state a call leaves behind
Return(st) ==
    /\ rule' = [st EXCEPT !.ingested = None]
    /\ result' = st.raised
    /\ UNCHANGED <<ewVars, cls, other, alone>>

IsFreq == rule.rules.type \in {"frequency", "flatline"}

Freq_add_data(limit, data) ==
    /\ IsFreq
    /\ rule.n + Len(data) <= limit
    /\ Return(FrequencyAddData(Call(rule), data))

Freq_add_count_data(limit, data) ==
    /\ IsFreq
    /\ rule.n < limit
    /\ Return(FrequencyAddCountData(Call(rule), data))

Freq_add_terms_data(limit, terms) ==
    /\ IsFreq
    /\ \A ts \in DOMAIN terms : rule.n + Len(terms[ts]) <= limit
    /\ Return(FrequencyAddTermsData(Call(rule), terms))

Freq_garbage_collect(limit, ts) ==
    /\ IsFreq
    /\ rule.n < limit
    /\ Return(IF rule.rules.type = "flatline"
              THEN FlatlineGarbageCollect(Call(rule), ts)
              ELSE FrequencyGarbageCollect(Call(rule), ts))

InitRule(r) ==
    /\ rule = r
    /\ result = "ok"
    /\ cls = NoRule /\ other = NoRule /\ alone = NoRule
    /\ ew = None /\ cbCalls = <<>> /\ appended = {} /\ nextId = 0

InitFrequency == \E rules \in FrequencyConfigs : InitRule(FrequencyRule(rules))

InitFlatline == \E rules \in FlatlineConfigs : InitRule(FlatlineRule(rules))

NextFreqWithin(limit) ==
    \/ IsFreq /\ \E data \in Batches(EventsFor(rule.rules, RuleTs)) : Freq_add_data(limit, data)
    \/ IsFreq /\ \E data \in CountData(RuleTs) : Freq_add_count_data(limit, data)
    \/ IsFreq /\ \E terms \in TermsData(RuleTs) : Freq_add_terms_data(limit, terms)
    \/ IsFreq /\ \E ts \in RuleTs : Freq_garbage_collect(limit, ts)

NextFreq == NextFreqWithin(MaxOps)

NextFreqRaw ==
    \/ \E data \in Batches(EventsFor(rule.rules, RuleTs)) : Freq_add_data(MaxRawEvents, data)
    \/ \E ts \in RuleTs : Freq_garbage_collect(MaxRawEvents, ts)

SpecFrequency == InitFrequency /\ [][NextFreq]_vars

SpecFrequencyRaw == InitFrequency /\ [][NextFreqRaw]_vars

SpecFlatline == InitFlatline /\ [][NextFreq]_vars

\* ---------------------------------------------------------------------
\* SpikeRule
\* ---------------------------------------------------------------------

SpikeTs == 0..2
SpikeTimeframes == {1}

find_matchesAnyType(rules, ref, cur) ==
    IF cur < rules.threshold_cur \/ ref < rules.threshold_ref
    THEN FALSE
    ELSE LET spike_down == cur <= ref \div rules.spike_height
             spike_up == cur >= ref * rules.spike_height
         IN  spike_up \/ spike_down

find_matchesStrict(rules, ref, cur) ==
    IF cur < rules.threshold_cur \/ ref < rules.threshold_ref
    THEN FALSE
    ELSE LET spike_down == cur < ref \div rules.spike_height
             spike_up == cur > ref * rules.spike_height
         IN  \/ rules.spike_type \in {"both", "up"} /\ spike_up
             \/ rules.spike_type \in {"both", "down"} /\ spike_down

\* SpikeRule.find_matches ("/" on two ints is Python 2's floor division)
find_matches(rules, ref, cur) ==
    IF cur < rules.threshold_cur \/ ref < rules.threshold_ref
    THEN FALSE
    ELSE LET spike_down == cur <= ref \div rules.spike_height
             spike_up == cur >= ref * rules.spike_height
         IN  \/ rules.spike_type \in {"both", "up"} /\ spike_up
             \/ rules.spike_type \in {"both", "down"} /\ spike_down

RECURSIVE handOverKeep(_, _, _)
handOverKeep(ref, timeframe, removed) ==
    IF removed = <<>> THEN ref
    ELSE handOverKeep(insert(ref, Head(removed)), timeframe, Tail(removed))

\* the onRemoved callback of a current window, self.ref_windows[qk].append,
\* applied to the entries the current window popped
RECURSIVE handOver(_, _, _)
handOver(ref, timeframe, removed) ==
    IF removed = <<>> THEN ref
    ELSE handOver(append(ref, timeframe, Head(removed)).data, timeframe, Tail(removed))

\* SpikeRule.add_match followed by RuleType.add_match
SpikeAddMatch(st, match, qk) ==
    LET extra_info == [spike_count |-> count(st.cur_windows[qk]),
                       reference_count |-> count(st.ref_windows[qk])]
    IN  add_match(st.matches,
                  [ts |-> match.ts, id |-> match.id, qk |-> match.qk,
                   spike_count |-> extra_info.spike_count,
                   reference_count |-> extra_info.reference_count])

\* SpikeRule.clear_windows
clear_windows(st, qk, event) ==
    [st EXCEPT !.cur_windows = Put(@, qk, <<>>),
               !.ref_windows = Put(@, qk, <<>>),
               !.first_event = Put(@, qk, event)]

handle_eventShortWarmup(st, event, cnt, qk) ==
    LET first_event == IF qk \in DOMAIN st.first_event THEN st.first_event
                       ELSE Put(st.first_event, qk, event)
        popped == append(WindowOf(st.cur_windows, qk), st.rules.timeframe,
                         [event |-> event, count |-> cnt])
        ref == handOver(WindowOf(st.ref_windows, qk), st.rules.timeframe, popped.removed)
        st1 == [st EXCEPT !.first_event = first_event,
                          !.ref_windows = Put(@, qk, ref),
                          !.cur_windows = Put(@, qk, popped.data),
                          !.n = @ + 1]
        warmup == event.ts - first_event[qk].ts < st.rules.timeframe
        st2 == IF warmup THEN st1 ELSE [st1 EXCEPT !.ref_window_filled_once = TRUE]
    IN  IF warmup /\ (~(st.rules.query_key /\ st.rules.alert_on_new_data)
                        \/ ~st.ref_window_filled_once)
        THEN st1
        ELSE IF find_matches(st.rules, count(ref), count(popped.data))
             THEN LET match == popped.data[Len(popped.data)].event
                      st3 == clear_windows(st2, qk, match)
                  IN  [st3 EXCEPT
                          !.matches = SpikeAddMatch(st2, match, qk),
                          !.log = Append(@, [key |-> qk, event |-> event,
                                             first |-> first_event[qk],
                                             filled |-> st.ref_window_filled_once,
                                             ref |-> ref, cur |-> popped.data,
                                             match |-> match,
                                             curAfter |-> st3.cur_windows[qk],
                                             refAfter |-> st3.ref_windows[qk],
                                             firstAfter |-> st3.first_event[qk]])]
             ELSE st2

\* SpikeRule.handle_event
handle_event(st, event, cnt, qk) ==
    LET first_event == IF qk \in DOMAIN st.first_event THEN st.first_event
                       ELSE Put(st.first_event, qk, event)
        popped == append(WindowOf(st.cur_windows, qk), st.rules.timeframe,
                         [event |-> event, count |-> cnt])
        ref == handOver(WindowOf(st.ref_windows, qk), st.rules.timeframe, popped.removed)
        st1 == [st EXCEPT !.first_event = first_event,
                          !.ref_windows = Put(@, qk, ref),
                          !.cur_windows = Put(@, qk, popped.data),
                          !.n = @ + 1]
        warmup == event.ts - first_event[qk].ts < st.rules.timeframe * 2
        st2 == IF warmup THEN st1 ELSE [st1 EXCEPT !.ref_window_filled_once = TRUE]
    IN  IF warmup /\ (~(st.rules.query_key /\ st.rules.alert_on_new_data)
                        \/ ~st.ref_window_filled_once)
        THEN st1
        ELSE IF find_matches(st.rules, count(ref), count(popped.data))
             THEN LET match == popped.data[Len(popped.data)].event
                      st3 == clear_windows(st2, qk, match)
                  IN  [st3 EXCEPT
                          !.matches = SpikeAddMatch(st2, match, qk),
                          !.log = Append(@, [key |-> qk, event |-> event,
                                             first |-> first_event[qk],
                                             filled |-> st.ref_window_filled_once,
                                             ref |-> ref, cur |-> popped.data,
                                             match |-> match,
                                             curAfter |-> st3.cur_windows[qk],
                                             refAfter |-> st3.ref_windows[qk],
                                             firstAfter |-> st3.first_event[qk]])]
             ELSE st2

\* the loop of SpikeRule.add_data
RECURSIVE SpikeAddData(_, _)
SpikeAddData(st, data) ==
    IF data = <<>> THEN st
    ELSE LET event == Head(data)
             qk == IF ~st.rules.query_key THEN "all"
                   ELSE IF event.qk = Null THEN "other" ELSE event.qk
         IN  SpikeAddData(handle_event(st, event, 1, qk), Tail(data))

\* SpikeRule.add_count_data
SpikeAddCountData(st, data) ==
    IF Cardinality(DOMAIN data) > 1
    THEN [st EXCEPT !.raised = "EAException"]
    ELSE IF DOMAIN data = {} THEN st
    ELSE LET ts == CHOOSE t \in DOMAIN data : TRUE
         IN  handle_event(st, Entry(ts, 0, Null, 0).event, data[ts], "all")

\* the loop over the buckets of one timestamp in SpikeRule.add_terms_data
RECURSIVE SpikeAddBuckets(_, _, _)
SpikeAddBuckets(st, timestamp, buckets) ==
    IF buckets = <<>> THEN st
    ELSE LET bucket == Head(buckets)
         IN  IF ~st.rules.query_key
             THEN [st EXCEPT !.raised = "KeyError"]     \* self.rules['query_key']
             ELSE SpikeAddBuckets(
                      handle_event(st, Entry(timestamp, 0, bucket.key, 0).event,
                                   bucket.doc_count, bucket.key),
                      timestamp, Tail(buckets))

\* SpikeRule.add_terms_data; terms is a dictionary {ts: buckets} of one timestamp
SpikeAddTermsData(st, terms) ==
    IF DOMAIN terms = {} THEN st
    ELSE LET timestamp == CHOOSE t \in DOMAIN terms : TRUE
         IN  SpikeAddBuckets(st, timestamp, terms[timestamp])

\* SpikeRule.garbage_collect; keys is self.cur_windows.keys()
RECURSIVE SpikeGarbageCollect(_, _, _)
SpikeGarbageCollect(st, ts, keys) ==
    IF keys = <<>> THEN st
    ELSE LET qk == Head(keys)
         IN  IF /\ qk # "all"
                /\ count(st.ref_windows[qk]) = 0
                /\ count(st.cur_windows[qk]) = 0
             THEN SpikeGarbageCollect([st EXCEPT !.cur_windows = Pop(@, qk),
                                                 !.ref_windows = Pop(@, qk)],
                                      ts, Tail(keys))
             ELSE SpikeGarbageCollect(
                      handle_event(st, Entry(ts, 0, IF qk = "all" THEN Null ELSE qk, 0).event,
                                   0, qk),
                      ts, Tail(keys))

\* RuleType.__init__ and SpikeRule.__init__; n and log are history: the
\* observations handled, and for every add_match call of the last call the
\* observation, the windows and first_event before and after it
SpikeRule(rules) ==
    [rules |-> rules, matches |-> <<>>, occurrences |-> EmptyDict,
     ref_windows |-> EmptyDict, cur_windows |-> EmptyDict, first_event |-> EmptyDict,
     ref_window_filled_once |-> FALSE,
     n |-> 0, ingested |-> None, log |-> <<>>, raised |-> "ok"]

\* the ingestion method the driver uses for a rule: add_count_data for a count
\* query (no query_key), add_terms_data for a terms query (over query_key),
\* add_data otherwise
QueryModes(query_key) == IF query_key THEN {"raw", "terms"} ELSE {"raw", "count"}

SpikeConfigs ==
    {r \in [type : {"spike"}, timeframe : SpikeTimeframes, spike_height : {2},
            spike_type : {"up", "down", "both"},
            threshold_cur : {0, 1}, threshold_ref : {0, 1},
            query_key : BOOLEAN, alert_on_new_data : BOOLEAN,
            mode : {"raw", "count", "terms"}] :
        /\ r.mode \in QueryModes(r.query_key)
        /\ r.alert_on_new_data => r.query_key
        /\ r.threshold_cur = r.threshold_ref}

\* the two orders in which a dictionary may iterate its keys
Orders(keys) == {keys, [i \in DOMAIN keys |-> keys[Len(keys) + 1 - i]]}

IsSpike == rule.rules.type = "spike"

Spike_add_data(limit, data) ==
    /\ IsSpike /\ rule.rules.mode = "raw"
    /\ rule.n + Len(data) <= limit
    /\ Return(SpikeAddData(Call(rule), data))

Spike_add_count_data(limit, data) ==
    /\ IsSpike /\ rule.rules.mode = "count"
    /\ rule.n < limit
    /\ Return(SpikeAddCountData(Call(rule), data))

Spike_add_terms_data(limit, terms) ==
    /\ IsSpike /\ rule.rules.mode = "terms"
    /\ \A ts \in DOMAIN terms : rule.n + Len(terms[ts]) <= limit
    /\ Return(SpikeAddTermsData(Call(rule), terms))

Spike_garbage_collect(limit, ts, keys) ==
    /\ IsSpike
    /\ rule.n + Len(keys) <= limit
    /\ Return(SpikeGarbageCollect(Call(rule), ts, keys))

InitSpike == \E rules \in SpikeConfigs : InitRule(SpikeRule(rules))

SpikeEvents(rules) ==
    {Entry(ts, 0, qk, 1).event : ts \in SpikeTs,
                                 qk \in IF rules.query_key THEN {"k1", Null} ELSE {Null}}

NextSpikeWithin(limit) ==
    \/ IsSpike /\ \E data \in Batches(SpikeEvents(rule.rules)) : Spike_add_data(limit, data)
    \/ IsSpike /\ \E data \in CountData(SpikeTs) : Spike_add_count_data(limit, data)
    \/ IsSpike /\ \E terms \in TermsData(SpikeTs) : Spike_add_terms_data(limit, terms)
    \/ IsSpike /\ \E ts \in SpikeTs, keys \in Orders(KeysOf(rule.cur_windows)) :
                      Spike_garbage_collect(limit, ts, keys)

NextSpike == NextSpikeWithin(MaxSpikeOps)

SpecSpike == InitSpike /\ [][NextSpike]_vars

\* ---------------------------------------------------------------------
\* CompareRule: BlacklistRule, WhitelistRule, ChangeRule; AnyRule
\* ---------------------------------------------------------------------

CompareTs == 0..2
Values == {Null, "a", "b"}

\* an event with a query_key field and a compare_key field
CompareEvents(keys) == [ts : CompareTs, id : {0}, qk : keys, val : Values]

\* BlacklistRule.compare
BlacklistCompare(rules, event) == event.val \in rules.blacklist

\* WhitelistRule.compare
WhitelistCompare(rules, event) ==
    IF event.val = Null THEN ~rules.ignore_null
    ELSE event.val \notin rules.whitelist

\* ChangeRule.compare on instance inst, with the class attributes c
ChangeCompareStrict(inst, c, event) ==
    LET key == event.qk
        val == event.val
        seen == key \in DOMAIN inst.occurrences
        differs == seen /\ inst.occurrences[key] # val
        timed == differs /\ key \in DOMAIN c.occurrence_time
        c1 == IF differs
              THEN [c EXCEPT !.change_map = Put(@, key, <<inst.occurrences[key], val>>)]
              ELSE c
    IN  IF val = Null /\ inst.rules.ignore_null
        THEN [inst |-> inst, cls |-> c, changed |-> FALSE, skipped |-> TRUE]
        ELSE IF timed /\ inst.rules.timeframe = None
        THEN [inst |-> [inst EXCEPT !.raised = "KeyError"],   \* self.rules['timeframe']
              cls |-> c1, changed |-> FALSE, skipped |-> FALSE]
        ELSE [inst |-> [inst EXCEPT !.occurrences = Put(@, key, val)],
              cls |-> IF inst.rules.timeframe # None
                      THEN [c1 EXCEPT !.occurrence_time = Put(@, key, event.ts)]
                      ELSE c1,
              changed |-> IF timed
                          THEN event.ts - c.occurrence_time[key] < inst.rules.timeframe
                          ELSE differs,
              skipped |-> FALSE]

ChangeCompare(inst, c, event) ==
    LET key == event.qk
        val == event.val
        seen == key \in DOMAIN inst.occurrences
        differs == seen /\ inst.occurrences[key] # val
        timed == differs /\ key \in DOMAIN c.occurrence_time
        c1 == IF differs
              THEN [c EXCEPT !.change_map = Put(@, key, <<inst.occurrences[key], val>>)]
              ELSE c
    IN  IF val = Null /\ inst.rules.ignore_null
        THEN [inst |-> inst, cls |-> c, changed |-> FALSE, skipped |-> TRUE]
        ELSE IF timed /\ inst.rules.timeframe = None
        THEN [inst |-> [inst EXCEPT !.raised = "KeyError"],   \* self.rules['timeframe']
              cls |-> c1, changed |-> FALSE, skipped |-> FALSE]
        ELSE [inst |-> [inst EXCEPT !.occurrences = Put(@, key, val)],
              cls |-> IF inst.rules.timeframe # None
                      THEN [c1 EXCEPT !.occurrence_time = Put(@, key, event.ts)]
                      ELSE c1,
              changed |-> IF timed
                          THEN event.ts - c.occurrence_time[key] <= inst.rules.timeframe
                          ELSE differs,
              skipped |-> FALSE]

ChangeAddMatchSwapped(matches, c, match) ==
    IF match.qk \in DOMAIN c.change_map
    THEN add_match(matches,
                   [ts |-> match.ts, id |-> match.id, qk |-> match.qk, val |-> match.val,
                    old_value |-> c.change_map[match.qk][2],
                    new_value |-> c.change_map[match.qk][1]])
    ELSE add_match(matches, match)

\* ChangeRule.add_match followed by RuleType.add_match
ChangeAddMatch(matches, c, match) ==
    IF match.qk \in DOMAIN c.change_map
    THEN add_match(matches,
                   [ts |-> match.ts, id |-> match.id, qk |-> match.qk, val |-> match.val,
                    old_value |-> c.change_map[match.qk][1],
                    new_value |-> c.change_map[match.qk][2]])
    ELSE add_match(matches, match)

\* the loop of CompareRule.add_data on a ChangeRule; the result is the
\* instance and the class attributes.  log is history: for every event of the
\* call, what was stored for its key before and after compare
RECURSIVE ChangeAddData(_, _, _)
ChangeAddData(inst, c, data) ==
    IF data = <<>> \/ inst.raised # "ok" THEN [inst |-> inst, cls |-> c]
    ELSE LET event == Head(data)
             r == ChangeCompare(inst, c, event)
             entry == [event |-> event,
                       skipped |-> r.skipped,
                       raised |-> r.inst.raised # "ok",
                       matched |-> r.changed,
                       had |-> event.qk \in DOMAIN inst.occurrences,
                       prev |-> IF event.qk \in DOMAIN inst.occurrences
                                THEN inst.occurrences[event.qk] ELSE Null,
                       time |-> IF event.qk \in DOMAIN c.occurrence_time
                                THEN c.occurrence_time[event.qk] ELSE None,
                       kept |-> event.qk \in DOMAIN r.inst.occurrences,
                       stored |-> IF event.qk \in DOMAIN r.inst.occurrences
                                  THEN r.inst.occurrences[event.qk] ELSE Null,
                       stored_time |-> IF event.qk \in DOMAIN r.cls.occurrence_time
                                       THEN r.cls.occurrence_time[event.qk] ELSE None]
             inst1 == [r.inst EXCEPT !.n = @ + 1, !.log = Append(@, entry)]
         IN  IF r.changed
             THEN ChangeAddData([inst1 EXCEPT !.matches = ChangeAddMatch(@, r.cls, event)],
                                r.cls, Tail(data))
             ELSE ChangeAddData(inst1, r.cls, Tail(data))

\* the loop of CompareRule.add_data on a BlacklistRule or a WhitelistRule
RECURSIVE CompareAddData(_, _)
CompareAddData(st, data) ==
    IF data = <<>> THEN st
    ELSE LET event == Head(data)
             hit == IF st.rules.type = "blacklist"
                    THEN BlacklistCompare(st.rules, event)
                    ELSE WhitelistCompare(st.rules, event)
             st1 == [st EXCEPT !.n = @ + 1]
         IN  CompareAddData(IF hit THEN [st1 EXCEPT !.matches = add_match(@, event)] ELSE st1,
                            Tail(data))

\* AnyRule.add_data
AnyAddData(st, data) == [st EXCEPT !.matches = @ \o data, !.n = @ + Len(data)]

\* RuleType.__init__
RuleType(rules) ==
    [rules |-> rules, matches |-> <<>>, occurrences |-> EmptyDict,
     n |-> 0, ingested |-> None, log |-> <<>>, raised |-> "ok"]

\* the class attributes of ChangeRule
ChangeRuleClass == [change_map |-> EmptyDict, occurrence_time |-> EmptyDict]

ChangeConfigs == [type : {"change"}, ignore_null : BOOLEAN, timeframe : {None, 1}]

SimpleConfigs ==
    [type : {"blacklist"}, blacklist : {{"a"}}]
        \cup [type : {"whitelist"}, whitelist : {{"a"}}, ignore_null : BOOLEAN]
        \cup [type : {"any"}]

IsChange == rule.rules.type = "change"
IsSimple == rule.rules.type \in {"blacklist", "whitelist", "any"}

\* add_data on the ChangeRule under test
Change_add_data(limit, data) ==
    /\ IsChange
    /\ rule.n + other.n + Len(data) <= limit
    /\ LET r == ChangeAddData(Call(rule), cls, data)
       IN  /\ rule' = r.inst
           /\ cls' = r.cls
           /\ result' = r.inst.raised
    /\ alone' = IF alone = NoRule THEN alone
                ELSE ChangeAddData(Call(alone.inst), alone.cls, data)
    /\ UNCHANGED <<ewVars, other>>

\* add_data on the second ChangeRule instance
Other_add_data(limit, data) ==
    /\ IsChange
    /\ rule.n + other.n + Len(data) <= limit
    /\ LET r == ChangeAddData(Call(other), cls, data)
       IN  /\ other' = r.inst
           /\ cls' = r.cls
    /\ UNCHANGED <<ewVars, rule, result, alone>>

\* add_data on a BlacklistRule, a WhitelistRule or an AnyRule
Simple_add_data(limit, data) ==
    /\ IsSimple
    /\ rule.n + Len(data) <= limit
    /\ Return(IF rule.rules.type = "any"
              THEN AnyAddData(Call(rule), data)
              ELSE CompareAddData(Call(rule), data))

\* RuleType.add_count_data and RuleType.add_terms_data, which these rule types
\* do not override
Base_unsupported ==
    /\ IsChange \/ IsSimple
    /\ Return([Call(rule) EXCEPT !.raised = "NotImplementedError"])

\* RuleType.garbage_collect
Base_garbage_collect ==
    /\ IsChange \/ IsSimple
    /\ Return(Call(rule))

InitChange ==
    /\ \E rules \in ChangeConfigs : rule = RuleType(rules)
    /\ \E rules \in ChangeConfigs : ~rules.ignore_null /\ other = RuleType(rules)
    /\ cls = ChangeRuleClass
    /\ alone = NoRule
    /\ result = "ok"
    /\ ew = None /\ cbCalls = <<>> /\ appended = {} /\ nextId = 0

\* two ChangeRule instances, with the history of the first one's own calls
InitChangePair ==
    /\ \E rules \in ChangeConfigs : ~rules.ignore_null /\ rule = RuleType(rules)
    /\ \E rules \in ChangeConfigs : ~rules.ignore_null /\ other = RuleType(rules)
    /\ cls = ChangeRuleClass
    /\ alone = [inst |-> rule, cls |-> ChangeRuleClass]
    /\ result = "ok"
    /\ ew = None /\ cbCalls = <<>> /\ appended = {} /\ nextId = 0

InitSimple == \E rules \in SimpleConfigs : InitRule(RuleType(rules))

NextChangeWithin(limit) ==
    \/ IsChange /\ \E data \in Batches(CompareEvents({"k1"})) : Change_add_data(limit, data)
    \/ IsChange /\ \E event \in CompareEvents({"k1"}) : Other_add_data(limit, <<event>>)
    \/ Base_unsupported
    \/ Base_garbage_collect

NextSimpleWithin(limit) ==
    \/ IsSimple /\ \E data \in Batches(CompareEvents({"k1"})) : Simple_add_data(limit, data)
    \/ Base_unsupported
    \/ Base_garbage_collect

NextChange == NextChangeWithin(MaxChangeOps)

SpecChange == InitChange /\ [][NextChange]_vars

SpecChangePair == InitChangePair /\ [][NextChange]_vars

\* ---------------------------------------------------------------------
\* A rule of any type
\* ---------------------------------------------------------------------

InitRules ==
    \/ InitSimple
    \/ InitChange
    \/ InitFrequency
    \/ InitFlatline
    \/ InitSpike

NextRules ==
    \/ NextSimpleWithin(MaxAnyOps)
    \/ NextChangeWithin(MaxAnyOps)
    \/ NextFreqWithin(MaxAnyOps)
    \/ NextSpikeWithin(MaxAnyOps)

SpecRules == InitRules /\ [][NextRules]_vars

\* ---------------------------------------------------------------------
\* Properties of the EventWindow
\* ---------------------------------------------------------------------

InWindow(e) == \E i \in DOMAIN ew.data : ew.data[i] = e

Calls(e) == Cardinality({i \in DOMAIN cbCalls : cbCalls[i] = e})

Sorted(s) == \A i, j \in DOMAIN s : i < j => get_ts(s[i]) <= get_ts(s[j])

\* C1: after every append the window's duration ts(last) - ts(first) is
\* strictly less than timeframe; a window that received a single entry holds
\* exactly that entry, with duration 0.
C1_DurationBelowTimeframe ==
    /\ duration(ew.data) < ew.timeframe
    /\ appended # {} => ew.data # <<>>
    /\ \A e \in appended : appended = {e} => ew.data = <<e>> /\ duration(ew.data) = 0

\* an out-of-order append has evicted entries and the window still spans
\* timeframe - 1
C1_Witness ==
    /\ Len(ew.data) >= 2
    /\ duration(ew.data) = ew.timeframe - 1
    /\ Cardinality(appended) > Len(ew.data)
    /\ \E i \in DOMAIN ew.data : i > 1 /\ ew.data[i].event.id < ew.data[i - 1].event.id

\* C2: iterating the window yields the entries in non-decreasing timestamp
\* order, whatever the order of arrival.
C2_IterationSorted == Sorted(ew.data)

\* an entry that arrived later sits between two entries that arrived before
\* it, next to one of equal timestamp
C2_Witness ==
    \E i \in DOMAIN ew.data :
        /\ i > 1 /\ i < Len(ew.data)
        /\ ew.data[i].event.id > ew.data[i + 1].event.id
        /\ ew.data[i].event.id > ew.data[i - 1].event.id
        /\ get_ts(ew.data[i]) = get_ts(ew.data[i - 1])
        /\ get_ts(ew.data[i]) < get_ts(ew.data[i + 1])

\* every entry that left the window was passed to the callback exactly once,
\* and no entry still in the window was passed to it
ExactlyOncePerRemoved ==
    ew.onRemoved =>
        /\ \A e \in appended : Calls(e) = IF InWindow(e) THEN 0 ELSE 1
        /\ \A i \in DOMAIN cbCalls : cbCalls[i] \in appended

\* C3 (as claimed): the callback is invoked exactly once per removed entry,
\* never for an entry still in the window, and the sequence of entries passed
\* to it over the whole run is in non-decreasing timestamp order.
C3_CallbackChronologicalOverRun ==
    ExactlyOncePerRemoved /\ (ew.onRemoved => Sorted(cbCalls))

\* C3 (amended): the callback is invoked exactly once per removed entry and
\* never for an entry still in the window; the entries passed to it during
\* one append are in non-decreasing timestamp order and none is later than an
\* entry left in the window.
C3_CallbackChronologicalPerAppend ==
    /\ []ExactlyOncePerRemoved
    /\ [][ew.onRemoved =>
            LET new == SubSeq(cbCalls', Len(cbCalls) + 1, Len(cbCalls'))
            IN  /\ cbCalls' = cbCalls \o new
                /\ Sorted(new)
                /\ \A i \in DOMAIN new, j \in DOMAIN ew'.data :
                       get_ts(new[i]) <= get_ts(ew'.data[j])]_vars

\* a late entry, older than one evicted before it, was evicted in turn
C3_Witness ==
    /\ ew.onRemoved
    /\ Len(cbCalls) >= 2
    /\ \E i \in DOMAIN cbCalls :
           i > 1 /\ get_ts(cbCalls[i]) < get_ts(cbCalls[i - 1])

\* ---------------------------------------------------------------------
\* Properties of FrequencyRule
\* ---------------------------------------------------------------------

\* the matches appended by the last call, one per recorded add_match call
NewMatches == SubSeq(rule.matches, Len(rule.matches) - Len(rule.log) + 1, Len(rule.matches))

\* no check_for_match call finds two keys at num_events: the order in which
\* the keys are iterated does not show
AtMostOneMatchPerCheck ==
    \A i, j \in DOMAIN rule.log : rule.log[i].at = rule.log[j].at => i = j

\* C5: whenever FrequencyRule appends a match for key k, the window of k had
\* count() >= num_events just before, the match is the newest (last) entry of
\* that window, and the window of k is removed from occurrences in that step.
C5_FrequencyMatchAtThreshold ==
    /\ Len(rule.log) <= Len(rule.matches)
    /\ \A i \in DOMAIN rule.log :
           LET call == rule.log[i]
               newest == call.window[Len(call.window)].event
           IN  /\ count(call.window) >= rule.rules.num_events
               /\ NewMatches[i] = [newest EXCEPT !.ts = dt_to_ts(@)]
               /\ \A j \in DOMAIN call.window : get_ts(call.window[j]) <= newest.ts
               /\ call.key \notin call.keysAfter

\* a match fired on the insertion of an older event: the match is the newest
\* entry of the window, which arrived before the entry that triggered it
C5_Witness ==
    \E i \in DOMAIN rule.log :
        LET w == rule.log[i].window
        IN  /\ Len(w) >= 2
            /\ rule.log[i].trigger = w[1]
            /\ get_ts(w[1]) < get_ts(w[Len(w)])

\* C6: fed raw events only, FrequencyRule emits a match for key k only after
\* at least num_events events of k were ingested since the previous match of
\* k (or since construction), and the window that matched holds only entries
\* ingested since then.
C6_FrequencyFreshAccumulation ==
    \A i \in DOMAIN rule.log :
        /\ rule.log[i].since >= rule.rules.num_events
        /\ Len(rule.log[i].window) <= rule.log[i].since

\* a key matched a second time, num_events >= 2 events after its first match
C6_Witness ==
    /\ rule.rules.num_events >= 2
    /\ Len(rule.matches) >= 2
    /\ \E i \in DOMAIN rule.log :
           /\ rule.log[i].since = rule.rules.num_events
           /\ \E j \in 1..(Len(rule.matches) - Len(rule.log)) :
                  rule.matches[j].qk = rule.log[i].window[1].event.qk

\* ---------------------------------------------------------------------
\* Properties of FlatlineRule
\* ---------------------------------------------------------------------

\* C9: with threshold > 0, first_event = t0 and no event ingested since, a
\* garbage_collect(now) with now - t0 >= timeframe appends exactly one match,
\* whose timestamp is now; one with now - t0 < timeframe appends none.
C9_FlatlineFiresOnSilence ==
    [][\A now \in RuleTs :
          (/\ Freq_garbage_collect(MaxOps, now)
           /\ rule.rules.threshold > 0
           /\ rule.first_event # None
           /\ rule.quiet)
          => IF now - rule.first_event >= rule.rules.timeframe
             THEN /\ Len(rule'.matches) = Len(rule.matches) + 1
                  /\ SubSeq(rule'.matches, 1, Len(rule.matches)) = rule.matches
                  /\ rule'.matches[Len(rule'.matches)].ts = dt_to_ts(now)
             ELSE rule'.matches = rule.matches]_vars

\* a tick fired after an event and an earlier tick that did not fire
C9_Witness ==
    /\ rule.rules.type = "flatline"
    /\ rule.rules.threshold > 0
    /\ Len(rule.log) = 1
    /\ rule.log[1].quiet
    /\ Len(rule.log[1].window) >= 1
    /\ rule.n = 3
    /\ LET w == rule.log[1].window
       IN  /\ rule.log[1].trigger = w[Len(w)]
           /\ w[Len(w)].count = 0
           /\ get_ts(w[Len(w)]) - rule.log[1].first >= rule.rules.timeframe
           /\ rule.matches[Len(rule.matches)].ts = dt_to_ts(get_ts(w[Len(w)]))

\* ---------------------------------------------------------------------
\* Properties of SpikeRule
\* ---------------------------------------------------------------------

\* C7: whenever SpikeRule appends a match for key k, the counts cur and ref of
\* k's current and reference windows at that instant satisfy both thresholds
\* and the comparison of the rule's spike_type (up: cur >= ref * spike_height,
\* down: cur <= ref / spike_height), and the match carries spike_count = cur
\* and reference_count = ref.
C7_SpikeMatchCondition ==
    /\ Len(rule.log) <= Len(rule.matches)
    /\ \A i \in DOMAIN rule.log :
           LET cur == count(rule.log[i].cur)
               ref == count(rule.log[i].ref)
               r == rule.rules
           IN  /\ cur >= r.threshold_cur
               /\ ref >= r.threshold_ref
               /\ \/ r.spike_type \in {"up", "both"} /\ cur >= ref * r.spike_height
                  \/ r.spike_type \in {"down", "both"} /\ cur * r.spike_height <= ref
               /\ NewMatches[i].spike_count = cur
               /\ NewMatches[i].reference_count = ref

\* an up-spike over a non-empty reference window, with thresholds set
C7_Witness ==
    /\ rule.rules.spike_type = "up"
    /\ rule.rules.threshold_cur = 1
    /\ \E i \in DOMAIN rule.log :
           /\ count(rule.log[i].ref) >= 1
           /\ count(rule.log[i].cur) >= 2 * count(rule.log[i].ref)
           /\ NewMatches[i].reference_count >= 1

\* C10: an observation for key qk with event.ts - first_event[qk].ts <
\* 2 * timeframe produces a match only when query_key and alert_on_new_data
\* are configured and ref_window_filled_once was already true; the flag, once
\* true, stays true.
C10_SpikeWarmupGate ==
    /\ [](\A i \in DOMAIN rule.log :
              rule.log[i].event.ts - rule.log[i].first.ts < 2 * rule.rules.timeframe
                  => /\ rule.rules.query_key
                     /\ rule.rules.alert_on_new_data
                     /\ rule.log[i].filled)
    /\ [][rule.ref_window_filled_once => rule'.ref_window_filled_once]_vars

\* a key seen for the first time matched at once, another key having passed
\* its warmup before
C10_Witness ==
    /\ rule.rules.alert_on_new_data
    /\ \E i \in DOMAIN rule.log :
           /\ rule.log[i].first = rule.log[i].event
           /\ rule.log[i].filled
           /\ \E k \in DOMAIN rule.first_event : k # rule.log[i].key


\* ---------------------------------------------------------------------
\* Properties of the match list and of ChangeRule
\* ---------------------------------------------------------------------

IsPrefix(s, t) == Len(s) <= Len(t) /\ SubSeq(t, 1, Len(s)) = s

ChangeLog == {rule.log[i] : i \in 1..Len(rule.log)}

\* compare updated what the rule stores for the event's key
Stored(e) ==
    /\ e.kept /\ e.stored = e.event.val
    /\ rule.rules.timeframe # None => e.stored_time = e.event.ts

\* compare left what the rule stores for the event's key as it was
NotStored(e) ==
    /\ e.stored = e.prev
    /\ e.stored_time = e.time
    /\ e.had <=> e.kept

TsOf(data) == {get_ts(data[i]) : i \in DOMAIN data}

\* C11 as stated: for every key, with now the newest timestamp of the key's
\* current window, the current window lies in [now - timeframe, now] and the
\* reference window in [now - 2*timeframe, now - timeframe).
C11_SpikeWindowsContiguous ==
    IsSpike =>
        \A k \in DOMAIN rule.cur_windows :
            LET cur == rule.cur_windows[k]
                ref == rule.ref_windows[k]
                tf == rule.rules.timeframe
            IN  cur # <<>> =>
                    LET now == get_ts(cur[Len(cur)])
                    IN  /\ \A t \in TsOf(cur) : now - tf <= t /\ t <= now
                        /\ \A t \in TsOf(ref) : now - 2 * tf <= t /\ t < now - tf

\* C11, amended: for every key, with now the newest timestamp of the key's
\* current window, the current window lies in (now - timeframe, now] and the
\* reference window holds only timestamps <= now - timeframe, spanning less
\* than timeframe; both windows are in timestamp order.
C11_SpikeWindowsAdjacent ==
    IsSpike =>
        \A k \in DOMAIN rule.cur_windows :
            LET cur == rule.cur_windows[k]
                ref == rule.ref_windows[k]
                tf == rule.rules.timeframe
            IN  /\ Sorted(cur) /\ Sorted(ref)
                /\ duration(ref) < tf
                /\ cur = <<>> => ref = <<>>
                /\ cur # <<>> =>
                       LET now == get_ts(cur[Len(cur)])
                       IN  /\ \A t \in TsOf(cur) : now - tf < t /\ t <= now
                           /\ \A t \in TsOf(ref) : t <= now - tf

\* an event exactly timeframe older than the newest one sits in the reference
\* window
C11_Witness ==
    /\ IsSpike
    /\ \E k \in DOMAIN rule.cur_windows :
           LET cur == rule.cur_windows[k]
               ref == rule.ref_windows[k]
           IN  /\ cur # <<>> /\ ref # <<>>
               /\ get_ts(cur[Len(cur)]) - rule.rules.timeframe \in TsOf(ref)
               /\ rule.n >= 3

\* the fields of a rule that hold its state (the others are history)
StateOf(st) ==
    [f \in DOMAIN st \ {"n", "ingested", "log", "raised", "since", "quiet", "checks"} |-> st[f]]

\* C12: add_count_data with a mapping of more than one entry raises and
\* leaves the state of a FrequencyRule, FlatlineRule or SpikeRule unchanged:
\* windows, first_event and matches.
C12_CountDataShapeError ==
    [][/\ \A data \in CountData(RuleTs) :
              (Cardinality(DOMAIN data) > 1
                   /\ (Freq_add_count_data(MaxAnyOps, data)
                           \/ Spike_add_count_data(MaxAnyOps, data)))
              => result' = "EAException"
       /\ result' = "EAException" => StateOf(rule') = StateOf(rule)]_vars

\* the call was refused by a rule that holds a window
C12_Witness ==
    /\ result = "EAException"
    /\ rule.n >= 1
    /\ \/ IsFreq /\ DOMAIN rule.occurrences # {}
       \/ IsSpike /\ DOMAIN rule.cur_windows # {}


\* the key under which a spike rule filed the event of a match
KeyOfMatch(m) ==
    IF ~rule.rules.query_key THEN "all"
    ELSE IF m.qk = Null THEN "other" ELSE m.qk

\* the place in rule.matches of the match of the i-th add_match call of the
\* last call
PlaceOf(i) == Len(rule.matches) - Len(rule.log) + i

\* C13: after a match for key k on an event with timestamp t both windows of
\* k are empty and first_event[k] is the matched event, and no later
\* observation of k with timestamp < t + 2*timeframe produces another match
\* for k, under every configuration.
C13_SpikeNoImmediateRefire ==
    IsSpike =>
        \A i \in DOMAIN rule.log :
            LET call == rule.log[i]
            IN  /\ call.curAfter = <<>> /\ call.refAfter = <<>>
                /\ call.firstAfter = call.match
                /\ rule.matches[PlaceOf(i)].ts = dt_to_ts(call.match.ts)
                /\ \A j \in 1..(PlaceOf(i) - 1) :
                       KeyOfMatch(rule.matches[j]) = call.key =>
                           call.event.ts >= rule.matches[j].ts[2] + 2 * rule.rules.timeframe


\* ---------------------------------------------------------------------
\* Properties of the checks of FlatlineRule
\* ---------------------------------------------------------------------

\* first_seen at a check: the newest timestamp of the window at the first
\* check after construction or after the previous match
FirstSeen(check) ==
    IF check.first = None THEN get_ts(check.window[Len(check.window)]) ELSE check.first

\* C14: each match check of FlatlineRule emits a match iff most_recent -
\* first_seen >= timeframe and the count of the 'all' window is strictly
\* below threshold; on a match the window is discarded and first_seen unset,
\* on no match the window and first_seen are left as they are.
C14_FlatlineCheck ==
    rule.rules.type = "flatline" =>
        /\ Len(rule.log) = Cardinality({i \in DOMAIN rule.checks : rule.checks[i].matched})
        /\ \A i \in DOMAIN rule.checks :
               LET check == rule.checks[i]
                   most_recent == get_ts(check.window[Len(check.window)])
               IN  /\ check.matched <=>
                          /\ most_recent - FirstSeen(check) >= rule.rules.timeframe
                          /\ count(check.window) < rule.rules.threshold
                   /\ check.matched =>
                          "all" \notin DOMAIN check.after /\ check.firstAfter = None
                   /\ ~check.matched =>
                          /\ "all" \in DOMAIN check.after
                          /\ check.after["all"] = check.window
                          /\ check.firstAfter = FirstSeen(check)
                   /\ i > 1 => check.first = rule.checks[i - 1].firstAfter
        /\ rule.checks # <<>> =>
               rule.first_event = rule.checks[Len(rule.checks)].firstAfter

\* a check matched on a window that holds an event, timeframe after the check
\* that set first_seen
C14_Witness ==
    /\ rule.rules.type = "flatline"
    /\ \E i \in DOMAIN rule.checks :
           LET check == rule.checks[i]
           IN  /\ check.matched
               /\ check.first # None
               /\ count(check.window) >= 1
               /\ get_ts(check.window[Len(check.window)]) - check.first = rule.rules.timeframe


\* ---------------------------------------------------------------------
\* Properties of SpikeRule.garbage_collect
\* ---------------------------------------------------------------------

\* C15: garbage_collect(now) forgets a key exactly when it is not 'all' and
\* both of its windows are empty; a forgotten key has no current window, no
\* reference window and no first_event left; every other key receives a
\* placeholder through handle_event.
C15_SpikeForgetsKey ==
    [][\A now \in SpikeTs :
          \A keys \in Orders(KeysOf(rule.cur_windows)) :
              Spike_garbage_collect(MaxSpikeOps, now, keys) =>
                  LET forgotten == {k \in DOMAIN rule.cur_windows :
                                        /\ k # "all"
                                        /\ rule.cur_windows[k] = <<>>
                                        /\ rule.ref_windows[k] = <<>>}
                  IN  /\ DOMAIN rule'.cur_windows = DOMAIN rule.cur_windows \ forgotten
                      /\ DOMAIN rule'.ref_windows = DOMAIN rule.ref_windows \ forgotten
                      /\ DOMAIN rule'.first_event = DOMAIN rule.first_event \ forgotten
                      /\ rule'.n = rule.n + Cardinality(DOMAIN rule.cur_windows \ forgotten)]_vars


\* ---------------------------------------------------------------------
\* Properties of the matches of ChangeRule
\* ---------------------------------------------------------------------

\* the events of the last call that matched, in order
Changes == SelectSeq(rule.log, LAMBDA e : e.matched)

Range(s) == {s[i] : i \in DOMAIN s}

\* C17: append_middle never reaches its cap; after append returns, the
\* appended entry and the entries the window held are each either in the
\* window, once, or were removed by eviction, being at least timeframe older
\* than the newest entry, and were passed to the callback when one is set.
C17_NoSilentDrop ==
    /\ [](result # "dropped")
    /\ [][nextId' > nextId =>
            LET e == CHOOSE x \in appended' \ appended : TRUE
                all == Range(ew.data) \cup {e}
                kept == Range(ew'.data)
                gone == all \ kept
                new == SubSeq(cbCalls', Len(cbCalls) + 1, Len(cbCalls'))
            IN  /\ appended' \ appended # {}
                /\ kept \subseteq all
                /\ Len(ew'.data) = Cardinality(kept)
                /\ \A g \in gone : \E x \in all : get_ts(x) - get_ts(g) >= ew.timeframe
                /\ ew.onRemoved => Range(new) = gone /\ Len(new) = Cardinality(gone)
                /\ ~ew.onRemoved => new = <<>>]_vars

\* the rotation loop went past two entries and stopped at an entry of the
\* same timestamp as the incoming one, in a window that has evicted before
C17_Witness ==
    /\ result = "ok"
    /\ Cardinality(appended) > Len(ew.data)
    /\ \E i \in DOMAIN ew.data :
           /\ i > 1 /\ i + 2 <= Len(ew.data)
           /\ ew.data[i].event.id = nextId - 1
           /\ get_ts(ew.data[i]) = get_ts(ew.data[i - 1])
           /\ get_ts(ew.data[i]) < get_ts(ew.data[i + 1])


\* ---------------------------------------------------------------------
\* Independence of ChangeRule instances
\* ---------------------------------------------------------------------

\* C18: the matches of a ChangeRule, old_value and new_value included, are
\* those it would have produced from its own events alone, whatever events
\* another ChangeRule instance was fed in between.
C18_ChangeInstancesIndependent ==
    (IsChange /\ alone # NoRule) => rule.matches = alone.inst.matches


\* ---------------------------------------------------------------------
\* Matches of SpikeRule on empty windows
\* ---------------------------------------------------------------------

BothZero(m) == m.spike_count = 0 /\ m.reference_count = 0

\* C19 as stated: SpikeRule never appends a match whose spike_count and
\* reference_count are both zero.
C19_SpikeNeverZeroMatch ==
    IsSpike => \A i \in DOMAIN rule.matches : ~BothZero(rule.matches[i])

\* C19, amended: a match with both counts zero is appended only under
\* threshold_cur = threshold_ref = 0.  For an unpartitioned rule whose 'all'
\* windows count no events, a tick at least 2*timeframe after first_event
\* appends exactly one such match when both thresholds are 0, and none
\* otherwise; a rule that holds no key is left as it is by a tick.
C19_SpikeZeroMatchOnDefaults ==
    /\ [](IsSpike =>
              \A i \in DOMAIN rule.matches :
                  BothZero(rule.matches[i]) =>
                      rule.rules.threshold_cur = 0 /\ rule.rules.threshold_ref = 0)
    /\ [][\A now \in SpikeTs :
             (/\ IsSpike /\ ~rule.rules.query_key
              /\ DOMAIN rule.cur_windows = {"all"}
              /\ count(rule.cur_windows["all"]) = 0
              /\ count(rule.ref_windows["all"]) = 0
              /\ Spike_garbage_collect(MaxSpikeOps, now, <<"all">>))
             => IF /\ rule.rules.threshold_cur = 0 /\ rule.rules.threshold_ref = 0
                   /\ now - rule.first_event["all"].ts >= 2 * rule.rules.timeframe
                THEN /\ Len(rule'.matches) = Len(rule.matches) + 1
                     /\ IsPrefix(rule.matches, rule'.matches)
                     /\ BothZero(rule'.matches[Len(rule'.matches)])
                     /\ rule'.matches[Len(rule'.matches)].ts = dt_to_ts(now)
                ELSE rule'.matches = rule.matches]_vars
    /\ [][\A now \in SpikeTs :
             (/\ IsSpike
              /\ DOMAIN rule.cur_windows = {}
              /\ Spike_garbage_collect(MaxSpikeOps, now, <<>>))
             => StateOf(rule') = StateOf(rule)]_vars

\* ticks alone, after one event that has left both windows, made an
\* unpartitioned rule with default thresholds match on two empty counts
C19_Witness ==
    /\ IsSpike /\ ~rule.rules.query_key
    /\ rule.rules.mode = "raw"
    /\ Len(rule.log) = 1
    /\ rule.log[1].event.ts >= 2
    /\ count(rule.log[1].cur) = 0 /\ count(rule.log[1].ref) = 0
    /\ BothZero(rule.matches[Len(rule.matches)])
    /\ rule.n = 3


\* ---------------------------------------------------------------------
\* The windows a FrequencyRule keeps between calls
\* ---------------------------------------------------------------------

\* the key under which a frequency rule files an entry
KeyOfEntry(entry) == IF entry.event.qk = Null THEN "all" ELSE entry.event.qk

\* C20: after every call on a FrequencyRule every window in occurrences is
\* non-empty and counts fewer than num_events; every window a check or a
\* garbage collection reads has a last entry, and an ingested entry triggers a
\* match for its own key only.
C20_FrequencyWindowsBelowThreshold ==
    rule.rules.type = "frequency" =>
        /\ \A k \in DOMAIN rule.occurrences :
               /\ rule.occurrences[k] # <<>>
               /\ count(rule.occurrences[k]) < rule.rules.num_events
        /\ \A i \in DOMAIN rule.log :
               /\ rule.log[i].window # <<>>
               /\ rule.log[i].key = KeyOfEntry(rule.log[i].trigger)
        /\ AtMostOneMatchPerCheck

\* a key matched in the last call while the window of another key, one entry
\* short of num_events, stayed
C20_Witness ==
    /\ rule.rules.type = "frequency"
    /\ rule.rules.num_events >= 2
    /\ \E i \in DOMAIN rule.log :
           \E k \in DOMAIN rule.occurrences :
               /\ k # rule.log[i].key
               /\ count(rule.occurrences[k]) = rule.rules.num_events - 1

====
